---- MODULE Spec2Model ----
(***************************************************************************)
(* Model of Houdini_FBX_Importer.py: the FbxImporter class, the script     *)
(* body that drives it, and the part of the host scene graph (hou) that    *)
(* the script touches: nodes with a type, a name, a parent, parameters,    *)
(* inputs, flags and a position.                                           *)
(*                                                                         *)
(* A string is a sequence of one-character strings, so that split(";")     *)
(* and strip() are computed character by character.  Node names are TLA+   *)
(* strings.  The empty str "" and the empty list [] are both <<>>; both    *)
(* are falsy in Python, which is all the script asks of them.              *)
(***************************************************************************)
EXTENDS Integers, Sequences, FiniteSets, TLC

VARIABLES
    fbx_files,    \* self.fbx_files
    dialog,       \* what hou.ui.selectFile returned to the running call
    ret,          \* return value of get_fbx_files_from_ui
    nodes,        \* the scene graph: node id -> node record
    nextId,       \* next fresh node id
    pc,           \* position of the running call ("idle": the shell prompt)
    caller,       \* "script" (lines 107-112), "shell" (a direct call), "none"
    geo_node,     \* locals of create_fbx_import_network (0: unbound)
    output_node,
    file_nodes,
    merge_node,
    i,
    displayed,    \* hou.ui.displayMessage texts shown by the running call
    stdout,       \* lines printed by the running call
    raised        \* the running call died with hou.ObjectWasDeleted

vars == <<fbx_files, dialog, ret, nodes, nextId, pc, caller, geo_node,
          output_node, file_nodes, merge_node, i, displayed, stdout, raised>>

(***************************************************************************)
(* Bounds                                                                  *)
(***************************************************************************)
MaxLen == 3          \* longest dialog result, in characters
MaxNetworks == 1     \* geometry containers built in one session

Chars == {"a", " ", ";"}
Whitespace == {" "}

RECURSIVE StringsUpTo(_)
StringsUpTo(n) ==
    IF n = 0 THEN {<<>>}
    ELSE LET shorter == StringsUpTo(n - 1)
         IN  shorter \cup {Append(s, c) : s \in {t \in shorter : Len(t) = n - 1}, c \in Chars}

DialogResults == StringsUpTo(MaxLen)

(***************************************************************************)
(* FbxImporter.__init__                                                    *)
(***************************************************************************)
geo_node_name == "fbx_imports"
output_node_name == "output1"
translate_x == 20

(***************************************************************************)
(* Messages                                                                *)
(***************************************************************************)
MsgCancelled == "FBX file selection cancelled."
MsgNotSelected == "FBX files not selected. Please select files first."
MsgNoFiles == "No FBX files selected."
MsgNoValid == "No valid FBX files selected."

(***************************************************************************)
(* str.split(";") and str.strip()                                          *)
(***************************************************************************)
RECURSIVE Split(_)
Split(s) ==
    IF s = <<>> THEN << <<>> >>
    ELSE LET rest == Split(Tail(s))
         IN  IF Head(s) = ";"
             THEN << <<>> >> \o rest
             ELSE << <<Head(s)>> \o Head(rest) >> \o Tail(rest)

RECURSIVE LStrip(_)
LStrip(s) ==
    IF s # <<>> /\ Head(s) \in Whitespace THEN LStrip(Tail(s)) ELSE s

RECURSIVE RStrip(_)
RStrip(s) ==
    IF s # <<>> /\ s[Len(s)] \in Whitespace
    THEN RStrip(SubSeq(s, 1, Len(s) - 1))
    ELSE s

MutStripLeftOnly(s) == LStrip(s)

Strip(s) == RStrip(LStrip(s))

\* lines 36-38: split on ';', then strip every segment
ParseSelection(s) ==
    LET parts == Split(s)
    IN  [k \in 1..Len(parts) |-> Strip(parts[k])]

MutNeverCancelled(s) == FALSE

\* line 32: `not self.fbx_files` on the dialog's str
SelectionCancelled(s) == s = <<>>

MutGuardNever(files) == FALSE

\* line 47: `not self.fbx_files`
NoFilesSelected(files) == files = <<>>

MutGuardInverted(files) == files # <<>>

\* line 61: `not self.fbx_files`, evaluated again after the container exists
NoFilesAfterSetup(files) == files = <<>>

(***************************************************************************)
(* Host scene graph.  Parent 0 is /obj.                                    *)
(***************************************************************************)
Children(ns, p) == {n \in DOMAIN ns : ns[n].parent = p}

NameTaken(ns, p, nm) == \E n \in Children(ns, p) : ns[n].name = nm

\* createNode keeps the requested name when no sibling has it, and
\* otherwise appends the first free number.
UniqueName(ns, p, nm) ==
    IF ~NameTaken(ns, p, nm) THEN nm
    ELSE LET free == {k \in 1..(Cardinality(Children(ns, p)) + 1) :
                         ~NameTaken(ns, p, nm \o ToString(k))}
         IN  nm \o ToString(CHOOSE k \in free : \A m \in free : k <= m)

NewNode(ns, p, type, nm) ==
    [type |-> type, name |-> UniqueName(ns, p, nm), parent |-> p,
     file |-> <<>>, tx |-> 0, parmsSet |-> {}, inputs |-> {},
     display |-> FALSE, render |-> FALSE, pos |-> "default"]

CreateNode(ns, id, p, type, nm) == ns @@ (id :> NewNode(ns, p, type, nm))

MoveToGoodPosition(ns, id) == [ns EXCEPT ![id].pos = "good"]

\* setInput(idx, src): one connection per input index
SetInput(ns, id, idx, src) ==
    [ns EXCEPT ![id].inputs = {c \in @ : c[1] # idx} \cup {<<idx, src>>}]

\* destroy() removes the node and everything inside it
Destroy(ns, id) ==
    LET gone == {id} \cup Children(ns, id)
    IN  [n \in DOMAIN ns \ gone |-> ns[n]]

LayoutChildren(ns, id) ==
    [n \in DOMAIN ns |-> IF ns[n].parent = id THEN [ns[n] EXCEPT !.pos = "layout"]
                         ELSE ns[n]]

Path(ns, id) == "/obj/" \o ns[id].name

NumNetworks == Cardinality({n \in DOMAIN nodes : nodes[n].type = "geo"})

(***************************************************************************)
(* Pieces of create_fbx_import_network                                     *)
(***************************************************************************)
FileNodeName(k) == "fbx_import_" \o ToString(k)
TransformNodeName(k) == "transform_" \o ToString(k)

MutFirstPath(files, k) == files[1]

\* line 70: enumerate(self.fbx_files), k counted from 0
FilePath(files, k) == files[k + 1]

MutTxOneBased(k) == translate_x * (k + 1)

\* line 79
TransformTx(k) == translate_x * k

MutMergeInputsShifted(fns) == {<<k, fns[k]>> : k \in 1..Len(fns)}

\* lines 90-91: enumerate(file_nodes)
MergeInputs(fns) == {<<k - 1, fns[k]>> : k \in 1..Len(fns)}

MutMergeAlways(fns) == Len(fns) >= 1

\* line 88
MergeNeeded(fns) == Len(fns) > 1

(***************************************************************************)
(* Init: the importer has been constructed, the scene is empty.            *)
(***************************************************************************)
NoLocals ==
    /\ geo_node = 0
    /\ output_node = 0
    /\ file_nodes = <<>>
    /\ merge_node = 0
    /\ i = 0

Init ==
    /\ fbx_files = <<>>
    /\ dialog = <<>>
    /\ ret = FALSE
    /\ nodes = <<>>
    /\ nextId = 1
    /\ pc = "idle"
    /\ caller = "none"
    /\ NoLocals
    /\ displayed = <<>>
    /\ stdout = <<>>
    /\ raised = FALSE

locals == <<geo_node, output_node, file_nodes, merge_node, i>>
scene == <<nodes, nextId>>
output == <<displayed, stdout, raised>>

(***************************************************************************)
(* Callers: the script body (lines 107-112) and direct calls from the     *)
(* Python shell on the importer it leaves behind.                          *)
(***************************************************************************)
EnterCall ==
    /\ pc = "idle"
    /\ dialog' = <<>>
    /\ ret' = FALSE
    /\ displayed' = <<>>
    /\ stdout' = <<>>
    /\ raised' = FALSE
    /\ UNCHANGED <<scene, locals>>

LeaveCall ==
    /\ pc' = "idle"
    /\ caller' = "none"
    /\ dialog' = <<>>
    /\ ret' = FALSE
    /\ displayed' = <<>>
    /\ stdout' = <<>>
    /\ raised' = FALSE
    /\ geo_node' = 0
    /\ output_node' = 0
    /\ file_nodes' = <<>>
    /\ merge_node' = 0
    /\ i' = 0
    /\ UNCHANGED <<fbx_files, scene>>

\* line 107 and the call of line 110: a new importer, then the file dialog
ScriptStart ==
    /\ EnterCall
    /\ fbx_files' = <<>>
    /\ caller' = "script"
    /\ pc' = "L25"

\* lines 110-112: create the network only when the selection returned True
ScriptIf ==
    /\ pc = "ret_get"
    /\ caller = "script"
    /\ IF ret
       THEN /\ pc' = "L47"
            /\ UNCHANGED <<fbx_files, dialog, ret, scene, caller, locals, output>>
       ELSE LeaveCall

ScriptEnd ==
    /\ pc = "ret_create"
    /\ caller = "script"
    /\ LeaveCall

ShellCallGet ==
    /\ EnterCall
    /\ caller' = "shell"
    /\ pc' = "L25"
    /\ UNCHANGED fbx_files

ShellCallCreate ==
    /\ EnterCall
    /\ fbx_files = <<>> \/ NumNetworks < MaxNetworks
    /\ caller' = "shell"
    /\ pc' = "L47"
    /\ UNCHANGED fbx_files

ShellReturn ==
    /\ pc \in {"ret_get", "ret_create"}
    /\ caller = "shell"
    /\ LeaveCall

(***************************************************************************)
(* get_fbx_files_from_ui, lines 21-39; s is what the dialog returns        *)
(***************************************************************************)
GetFbxFilesFromUi(s) ==
    /\ pc = "L25"
    /\ s = <<>> \/ NumNetworks < MaxNetworks
    /\ dialog' = s
    /\ IF SelectionCancelled(s)
       THEN /\ fbx_files' = s
            /\ displayed' = Append(displayed, MsgCancelled)
            /\ ret' = FALSE
       ELSE /\ fbx_files' = ParseSelection(s)
            /\ displayed' = displayed
            /\ ret' = TRUE
    /\ pc' = "ret_get"
    /\ UNCHANGED <<scene, caller, locals, stdout, raised>>

(***************************************************************************)
(* create_fbx_import_network, lines 41-102                                 *)
(***************************************************************************)
\* lines 47-49
FirstGuard ==
    /\ pc = "L47"
    /\ IF NoFilesSelected(fbx_files)
       THEN /\ displayed' = Append(displayed, MsgNotSelected)
            /\ pc' = "ret_create"
       ELSE /\ displayed' = displayed
            /\ pc' = "L52"
    /\ UNCHANGED <<fbx_files, dialog, ret, scene, caller, locals, stdout, raised>>

\* lines 52-53
CreateGeo ==
    /\ pc = "L52"
    /\ nodes' = MoveToGoodPosition(
                    CreateNode(nodes, nextId, 0, "geo", geo_node_name), nextId)
    /\ geo_node' = nextId
    /\ nextId' = nextId + 1
    /\ pc' = "L56"
    /\ UNCHANGED <<fbx_files, dialog, ret, caller, output_node, file_nodes,
                   merge_node, i, output>>

\* lines 56-59
CreateOutput ==
    /\ pc = "L56"
    /\ LET made == MoveToGoodPosition(
                       CreateNode(nodes, nextId, geo_node, "output", output_node_name),
                       nextId)
       IN  nodes' = [made EXCEPT ![nextId].display = TRUE, ![nextId].render = TRUE]
    /\ output_node' = nextId
    /\ nextId' = nextId + 1
    /\ pc' = "L61"
    /\ UNCHANGED <<fbx_files, dialog, ret, caller, geo_node, file_nodes,
                   merge_node, i, output>>

\* lines 61-67
SecondGuard ==
    /\ pc = "L61"
    /\ IF NoFilesAfterSetup(fbx_files)
       THEN /\ displayed' = Append(displayed, MsgNoFiles)
            /\ nodes' = Destroy(nodes, geo_node)
            /\ pc' = "ret_create"
       ELSE /\ displayed' = displayed
            /\ nodes' = nodes
            /\ pc' = "L70"
    /\ file_nodes' = <<>>
    /\ i' = 0
    /\ UNCHANGED <<fbx_files, dialog, ret, nextId, caller, geo_node, output_node,
                   merge_node, stdout, raised>>

\* lines 70-81: one pass of the for loop, or its end
ForEachFile ==
    /\ pc = "L70"
    /\ IF i < Len(fbx_files)
       THEN LET fileId == nextId
                xformId == nextId + 1
                n1 == CreateNode(nodes, fileId, geo_node, "file", FileNodeName(i))
                n2 == [n1 EXCEPT ![fileId].file = FilePath(fbx_files, i),
                                 ![fileId].parmsSet = @ \cup {"file"}]
                n3 == MoveToGoodPosition(n2, fileId)
                n4 == CreateNode(n3, xformId, geo_node, "xform", TransformNodeName(i))
                n5 == SetInput(n4, xformId, 0, fileId)
                n6 == MoveToGoodPosition(n5, xformId)
                n7 == [n6 EXCEPT ![xformId].tx = TransformTx(i),
                                 ![xformId].parmsSet = @ \cup {"tx"}]
            IN  /\ nodes' = n7
                /\ nextId' = nextId + 2
                /\ file_nodes' = Append(file_nodes, xformId)
                /\ i' = i + 1
                /\ pc' = "L70"
       ELSE /\ pc' = "L87"
            /\ UNCHANGED <<scene, file_nodes, i>>
    /\ UNCHANGED <<fbx_files, dialog, ret, caller, geo_node, output_node,
                   merge_node, output>>

\* lines 87-98
MergeFiles ==
    /\ pc = "L87"
    /\ IF file_nodes # <<>>
       THEN IF MergeNeeded(file_nodes)
            THEN LET n1 == CreateNode(nodes, nextId, geo_node, "merge", "fbx_merge")
                     n2 == [n1 EXCEPT ![nextId].inputs = MergeInputs(file_nodes)]
                     n3 == MoveToGoodPosition(n2, nextId)
                 IN  /\ nodes' = SetInput(n3, output_node, 0, nextId)
                     /\ merge_node' = nextId
                     /\ nextId' = nextId + 1
                     /\ displayed' = displayed
            ELSE /\ nodes' = SetInput(nodes, output_node, 0, file_nodes[1])
                 /\ UNCHANGED <<merge_node, nextId, displayed>>
       ELSE /\ displayed' = Append(displayed, MsgNoValid)
            /\ nodes' = Destroy(nodes, geo_node)
            /\ UNCHANGED <<merge_node, nextId>>
    /\ pc' = "L101"
    /\ UNCHANGED <<fbx_files, dialog, ret, caller, geo_node, output_node,
                   file_nodes, i, stdout, raised>>

\* lines 101-102: both calls raise hou.ObjectWasDeleted on a destroyed node
LayoutAndReport ==
    /\ pc = "L101"
    /\ IF geo_node \in DOMAIN nodes
       THEN /\ nodes' = LayoutChildren(nodes, geo_node)
            /\ stdout' = Append(stdout, Path(nodes, geo_node))
            /\ raised' = FALSE
       ELSE /\ raised' = TRUE
            /\ UNCHANGED <<nodes, stdout>>
    /\ pc' = "ret_create"
    /\ UNCHANGED <<fbx_files, dialog, ret, nextId, caller, locals, displayed>>

Next ==
    \/ ScriptStart
    \/ ScriptIf
    \/ ScriptEnd
    \/ ShellCallGet
    \/ ShellCallCreate
    \/ ShellReturn
    \/ \E s \in DialogResults : GetFbxFilesFromUi(s)
    \/ FirstGuard
    \/ CreateGeo
    \/ CreateOutput
    \/ SecondGuard
    \/ ForEachFile
    \/ MergeFiles
    \/ LayoutAndReport

Spec == Init /\ [][Next]_vars

(***************************************************************************)
(* Properties                                                              *)
(***************************************************************************)
\* create_fbx_import_network has returned after being called with files
Built == pc = "ret_create" /\ fbx_files # <<>>

NumFiles == Len(fbx_files)

KidsOf(type) == {n \in Children(nodes, geo_node) : nodes[n].type = type}

Named(type, nm) == {n \in KidsOf(type) : nodes[n].name = nm}

FileNode(k) == Named("file", "fbx_import_" \o ToString(k))

TransformNode(k) == Named("xform", "transform_" \o ToString(k))

\* C1: after create_fbx_import_network on n files the container holds, for
\* each index 0..n-1, exactly one File node fbx_import_i whose 'file' parameter
\* is fbx_files[i] and exactly one Transform node transform_i whose input 0 is
\* fbx_import_i, and no File or Transform node for any other index.
C1_OnePairPerFile ==
    Built =>
        /\ geo_node \in DOMAIN nodes
        /\ \A k \in 0..(NumFiles - 1) :
              /\ Cardinality(FileNode(k)) = 1
              /\ Cardinality(TransformNode(k)) = 1
              /\ \A f \in FileNode(k) :
                    /\ nodes[f].file = fbx_files[k + 1]
                    /\ "file" \in nodes[f].parmsSet
                    /\ \A t \in TransformNode(k) : nodes[t].inputs = {<<0, f>>}
        /\ Cardinality(KidsOf("file")) = NumFiles
        /\ Cardinality(KidsOf("xform")) = NumFiles

C1_Witness ==
    /\ Built
    /\ NumFiles = 2
    /\ fbx_files[1] # fbx_files[2]
    /\ \E f \in FileNode(1) : nodes[f].file = fbx_files[2]

\* C2: transform_i has tx = translate_x * i (20 * i), so the first file is at
\* offset 0 and consecutive files differ by translate_x; tx is the only
\* parameter set on a Transform node.
C2_TxOffsets ==
    Built =>
        /\ \A k \in 0..(NumFiles - 1) : \A t \in TransformNode(k) :
              /\ nodes[t].tx = translate_x * k
              /\ nodes[t].tx = 20 * k
              /\ nodes[t].parmsSet = {"tx"}
        /\ \A t \in TransformNode(0) : nodes[t].tx = 0
        /\ \A k \in 1..(NumFiles - 1) :
              \A t \in TransformNode(k), u \in TransformNode(k - 1) :
                  nodes[t].tx - nodes[u].tx = translate_x

C2_Witness ==
    /\ Built
    /\ NumFiles >= 3
    /\ \E t \in TransformNode(2) : nodes[t].tx = 40

\* C3: with two or more files there is exactly one Merge node, fbx_merge,
\* whose input i is transform_i for every i, and input 0 of the output node
\* is that Merge node.
C3_MergeWiring ==
    (Built /\ NumFiles >= 2) =>
        /\ Cardinality(KidsOf("merge")) = 1
        /\ \A m \in KidsOf("merge") :
              /\ nodes[m].name = "fbx_merge"
              /\ nodes[m].inputs =
                     {c \in (0..(NumFiles - 1)) \X KidsOf("xform") :
                         c[2] \in TransformNode(c[1])}
              /\ Cardinality(nodes[m].inputs) = NumFiles
              /\ \A c \in nodes[m].inputs : nodes[c[2]].type = "xform"
              /\ \A o \in KidsOf("output") : nodes[o].inputs = {<<0, m>>}
        /\ Cardinality(KidsOf("output")) = 1

C3_Witness ==
    /\ Built
    /\ NumFiles = 3
    /\ \E m \in KidsOf("merge") : \E t \in TransformNode(2) : <<2, t>> \in nodes[m].inputs

\* C6: with exactly one file no Merge node is created, input 0 of the output
\* node is transform_0, and the container has exactly three children: the
\* output node, fbx_import_0 and transform_0.
C6_SingleFileDirect ==
    (Built /\ NumFiles = 1) =>
        /\ KidsOf("merge") = {}
        /\ Cardinality(Children(nodes, geo_node)) = 3
        /\ {nodes[n].name : n \in Children(nodes, geo_node)}
               = {"output1", "fbx_import_0", "transform_0"}
        /\ Cardinality(TransformNode(0)) = 1
        /\ \A o \in KidsOf("output") : \A t \in TransformNode(0) :
              nodes[o].inputs = {<<0, t>>}

C6_Witness ==
    /\ Built
    /\ NumFiles = 1
    /\ \E o \in KidsOf("output") : \E t \in TransformNode(0) : <<0, t>> \in nodes[o].inputs

\* C4: when the dialog returns an empty result to the script,
\* get_fbx_files_from_ui shows the cancellation message and returns False,
\* and the script ends without calling create_fbx_import_network: the scene
\* graph is left as it was.
C4_CancelLeavesScene ==
    [][/\ (caller = "script" /\ pc = "L25" /\ dialog' = <<>>) =>
              /\ ret' = FALSE
              /\ displayed' = <<MsgCancelled>>
              /\ pc' = "ret_get"
              /\ nodes' = nodes
       /\ (caller = "script" /\ pc = "ret_get" /\ dialog = <<>>) =>
              /\ pc' = "idle"
              /\ nodes' = nodes]_vars

C4_Witness ==
    /\ caller = "script"
    /\ pc = "ret_get"
    /\ dialog = <<>>
    /\ ret = FALSE
    /\ displayed = <<MsgCancelled>>
    /\ DOMAIN nodes # {}

\* C5: create_fbx_import_network called with an empty fbx_files shows the
\* 'FBX files not selected' message and returns; no node is created,
\* connected or destroyed.
C5_EmptyListNoEffect ==
    [][/\ (pc = "L47" /\ fbx_files = <<>>) =>
              /\ displayed' = Append(displayed, MsgNotSelected)
              /\ pc' = "ret_create"
              /\ nodes' = nodes
       /\ (pc = "ret_create" /\ fbx_files = <<>>) =>
              /\ pc' = "idle"
              /\ nodes' = nodes]_vars

C5_Witness ==
    /\ pc = "ret_create"
    /\ fbx_files = <<>>
    /\ displayed = <<MsgNotSelected>>
    /\ DOMAIN nodes # {}

\* The k-th ';'-separated segment of s, found by position.
SemiPos(s) == {p \in 1..Len(s) : s[p] = ";"}

NthSemi(s, k) == CHOOSE p \in SemiPos(s) : Cardinality({q \in SemiPos(s) : q <= p}) = k

Segment(s, k) ==
    LET first == IF k = 1 THEN 1 ELSE NthSemi(s, k - 1) + 1
        last == IF k = Cardinality(SemiPos(s)) + 1 THEN Len(s) ELSE NthSemi(s, k) - 1
    IN  SubSeq(s, first, last)

\* e is seg without its leading and trailing spaces
IsStripped(e, seg) ==
    /\ e # <<>> => (e[1] # " " /\ e[Len(e)] # " ")
    /\ \E a \in 0..Len(seg) :
          /\ a + Len(e) <= Len(seg)
          /\ SubSeq(seg, a + 1, a + Len(e)) = e
          /\ \A p \in (1..a) \cup ((a + Len(e) + 1)..Len(seg)) : seg[p] = " "

\* C7: for a non-empty dialog result s, get_fbx_files_from_ui returns True and
\* fbx_files is the list of the ';'-separated segments of s, in order, each
\* without leading and trailing whitespace; it has (number of ';') + 1
\* entries and none begins or ends with a space.
C7_SplitAndStrip ==
    (pc = "ret_get" /\ dialog # <<>>) =>
        /\ ret = TRUE
        /\ Len(fbx_files) = Cardinality(SemiPos(dialog)) + 1
        /\ \A k \in 1..Len(fbx_files) : IsStripped(fbx_files[k], Segment(dialog, k))

C7_Witness ==
    /\ pc = "ret_get"
    /\ dialog = <<" ", "a", " ">>
    /\ fbx_files = << <<"a">> >>

\* C8: once past the first guard the container is never destroyed: neither
\* the second guard nor the 'No valid FBX files selected' branch is taken,
\* no call is made on a destroyed node, and the success line is printed only
\* when the container, its output node and at least one File/Transform pair
\* exist and input 0 of the output node is connected.
C8_ContainerSurvives ==
    /\ geo_node # 0 => geo_node \in DOMAIN nodes
    /\ ~raised
    /\ \A k \in 1..Len(displayed) : displayed[k] \notin {MsgNoFiles, MsgNoValid}
    /\ stdout # <<>> =>
          /\ geo_node \in DOMAIN nodes
          /\ output_node \in Children(nodes, geo_node)
          /\ \E f \in KidsOf("file"), t \in KidsOf("xform") : <<0, f>> \in nodes[t].inputs
          /\ \E c \in nodes[output_node].inputs : c[1] = 0 /\ c[2] \in Children(nodes, geo_node)

C8_Witness ==
    /\ pc = "ret_create"
    /\ geo_node \in DOMAIN nodes
    /\ stdout = <<"/obj/fbx_imports">>

\* C9: every File node has a non-empty 'file' parameter: whenever
\* get_fbx_files_from_ui returns True no entry of fbx_files is the empty
\* string.
C9_NoEmptyPath ==
    \A n \in DOMAIN nodes : nodes[n].type = "file" => nodes[n].file # <<>>

====
